---------------------------- MODULE Spec2Model ----------------------------
(***************************************************************************)
(* CppVault: the password-protected vault (Vault.cpp, Crypto.cpp).         *)
(*                                                                         *)
(* The state is the Vault object's m_entries and the vault file on disk.   *)
(* The operations are the public methods of Vault, called in any order by  *)
(* a client: load, save, clear, addEntry, deleteEntry and the in-place     *)
(* edit through getEntryForEdit.  The environment supplies, per call, the  *)
(* password, whether crypto_pwhash finds the memory it needs, the random   *)
(* salt and nonce, and whether the file can be opened and written.         *)
(*                                                                         *)
(* Four more specifications use the same definitions: StoreSpec (the       *)
(* entry store alone), CryptoSpec (Crypto::encrypt and Crypto::decrypt     *)
(* called directly, on a random source that hands out each value once),    *)
(* AppSpec (the application of main.cpp: the login screen and the main     *)
(* window, one action per click) and EditorSpec (the main window's list,   *)
(* buttons and popup, with the vault file left as it was found).           *)
(*                                                                         *)
(* Texts are sequences of tokens (the JSON text without its white space),  *)
(* and a length of a text is its number of tokens.  Byte strings that      *)
(* reach decrypt are a prefix of salt || nonce || sealed box.              *)
(***************************************************************************)
EXTENDS Integers, Sequences, FiniteSets, TLC

VARIABLES
    m_entries,  \* Vault::m_entries, the in-memory collection
    file,       \* the vault file: [exists, data]
    last,       \* the last call: its name, arguments and outcome
    saved,      \* the collection and password of the last save that returned true
    randombytes,    \* how many values randombytes_buf has handed out
    envelopes,      \* what Crypto::encrypt has returned so far, call by call
    decrypted,      \* what the last call of Crypto::decrypt was given and returned
    currentState,   \* main's AppState: "Locked" or "Unlocked"
    passwordBuffer, \* main's char passwordBuffer[128]
    loginError,     \* main's loginError, the line of text both windows show
    currentEntry,   \* RenderMainVault's static currentEntry
    popupOpen,      \* whether the "Add/Edit Entry" popup is open
    selectedEntry   \* RenderMainVault's static selectedEntry

cryptoVars == <<randombytes, envelopes, decrypted>>
appVars == <<currentState, passwordBuffer, loginError, currentEntry, popupOpen,
             selectedEntry>>

vars == <<m_entries, file, last, saved, randombytes, envelopes, decrypted,
          currentState, passwordBuffer, loginError, currentEntry, popupOpen,
          selectedEntry>>

----------------------------------------------------------------------------
(* Bounds of the model *)

\* the longest collection of the entry store alone (StoreSpec)
MaxEntries == 3
\* how long addEntry may make the collection when the vault file is modelled
\* with it (Spec); a load may bring in a longer one
MaxStored == 1
\* how many envelopes Crypto::encrypt may return (CryptoSpec)
MaxEncrypts == 2

(* libsodium's sizes, as Crypto.cpp uses them *)
SALT_LEN == 16      \* crypto_pwhash_SALTBYTES
NONCE_LEN == 24     \* crypto_secretbox_NONCEBYTES
TAG_LEN == 16       \* crypto_secretbox_MACBYTES

(* size_t arithmetic wraps.  The width is 64 bits in the build; the model  *)
(* keeps the wrap in a width that TLC's integers can hold.                 *)
SIZE_BITS == 30
SIZE_MOD == 2 ^ SIZE_BITS
\* std::vector<unsigned char>::max_size()
VECTOR_MAX == (SIZE_MOD \div 2) - 1

SizeSub(a, b) == (a - b + SIZE_MOD) % SIZE_MOD

\* The values the environment draws from
Passwords == {"p1", "p2"}
Salts == {1, 2}
Nonces == {1}
Ids == {1, 2}
Profiles == {1, 2}
\* the identifiers of the entry store alone (StoreSpec)
StoreIds == {1, 2, 3}

----------------------------------------------------------------------------
(* PasswordEntry *)

Text(i) == <<"a", "b", "c", "d", "e", "f", "g", "h">>[i]

Entry(id, i) ==
    [id |-> id, title |-> Text(i), username |-> Text(i + 1),
     password |-> Text(i + 2), url |-> "", notes |-> Text(i + 3)]

Entries == {Entry(id, i) : id \in Ids, i \in Profiles}
StoreEntries == {Entry(id, i) : id \in StoreIds, i \in Profiles}

HasId(entries, id) == \E k \in 1..Len(entries) : entries[k].id = id

----------------------------------------------------------------------------
(* nlohmann::json, as Vault.cpp uses it.  A JSON value is a record tagged  *)
(* by its type; an object is a map from keys to values (std::map, so its   *)
(* keys are kept sorted); a text is a sequence of tokens.                  *)

JNum(n) == [t |-> "number", n |-> n]
JStr(s) == [t |-> "string", s |-> s]
JArr(a) == [t |-> "array", a |-> a]
JObj(o) == [t |-> "object", o |-> o]

Punct(s) == [k |-> "p", s |-> s, n |-> 0]
StrTok(s) == [k |-> "s", s |-> s, n |-> 0]
NumTok(n) == [k |-> "n", s |-> "", n |-> n]

EntryKeys == {"id", "title", "username", "password", "url", "notes"}
TextKeys == EntryKeys \ {"id"}

\* The iteration order of std::map<std::string, json> over the keys in use.
MapOrder == <<"id", "notes", "password", "title", "url", "username", "version">>

EmptyMap == [x \in {} |-> 0]

\* void to_json(json& j, const PasswordEntry& p)
to_json(p) ==
    JObj([k \in EntryKeys |-> IF k = "id" THEN JNum(p.id) ELSE JStr(p[k])])

RECURSIVE EntriesToJson(_)
EntriesToJson(entries) ==
    IF entries = <<>> THEN <<>>
    ELSE <<to_json(Head(entries))>> \o EntriesToJson(Tail(entries))

\* json j = m_entries;
VectorToJson(entries) == JArr(EntriesToJson(entries))

RECURSIVE Dump(_), DumpItems(_, _), DumpMembers(_, _)
\* j.dump(4)
Dump(j) ==
    CASE j.t = "number" -> <<NumTok(j.n)>>
      [] j.t = "string" -> <<StrTok(j.s)>>
      [] j.t = "array" -> <<Punct("[")>> \o DumpItems(j.a, 1) \o <<Punct("]")>>
      [] j.t = "object" ->
            <<Punct("{")>>
            \o DumpMembers(j.o, SelectSeq(MapOrder, LAMBDA k : k \in DOMAIN j.o))
            \o <<Punct("}")>>

DumpItems(a, i) ==
    IF i > Len(a) THEN <<>>
    ELSE (IF i > 1 THEN <<Punct(",")>> ELSE <<>>)
         \o Dump(a[i]) \o DumpItems(a, i + 1)

DumpMembers(o, keys) ==
    IF keys = <<>> THEN <<>>
    ELSE <<StrTok(Head(keys)), Punct(":")>> \o Dump(o[Head(keys)])
         \o (IF Tail(keys) = <<>> THEN <<>> ELSE <<Punct(",")>>)
         \o DumpMembers(o, Tail(keys))

ParseFail == [ok |-> FALSE, v |-> JNum(0), rest |-> <<>>]
ParseOk(v, rest) == [ok |-> TRUE, v |-> v, rest |-> rest]

IsPunct(ts, s) == ts # <<>> /\ Head(ts) = Punct(s)

RECURSIVE ParseValue(_), ParseItems(_, _), ParseMembers(_, _)
ParseValue(ts) ==
    IF ts = <<>> THEN ParseFail
    ELSE LET h == Head(ts) IN
         CASE h.k = "n" -> ParseOk(JNum(h.n), Tail(ts))
           [] h.k = "s" -> ParseOk(JStr(h.s), Tail(ts))
           [] h = Punct("[") ->
                IF IsPunct(Tail(ts), "]")
                THEN ParseOk(JArr(<<>>), Tail(Tail(ts)))
                ELSE ParseItems(Tail(ts), <<>>)
           [] h = Punct("{") ->
                IF IsPunct(Tail(ts), "}")
                THEN ParseOk(JObj(EmptyMap), Tail(Tail(ts)))
                ELSE ParseMembers(Tail(ts), EmptyMap)
           [] OTHER -> ParseFail

ParseItems(ts, acc) ==
    LET r == ParseValue(ts) IN
    IF ~r.ok THEN ParseFail
    ELSE IF IsPunct(r.rest, ",") THEN ParseItems(Tail(r.rest), Append(acc, r.v))
    ELSE IF IsPunct(r.rest, "]") THEN ParseOk(JArr(Append(acc, r.v)), Tail(r.rest))
    ELSE ParseFail

ParseMembers(ts, acc) ==
    IF ~(Len(ts) >= 2 /\ ts[1].k = "s" /\ ts[2] = Punct(":")) THEN ParseFail
    ELSE LET key == ts[1].s
             r == ParseValue(SubSeq(ts, 3, Len(ts)))
             put == [x \in DOMAIN acc \cup {key} |-> IF x = key THEN r.v ELSE acc[x]]
         IN  IF ~r.ok THEN ParseFail
             ELSE IF IsPunct(r.rest, ",") THEN ParseMembers(Tail(r.rest), put)
             ELSE IF IsPunct(r.rest, "}") THEN ParseOk(JObj(put), Tail(r.rest))
             ELSE ParseFail

\* json::parse(text): the whole text is one value, or parse_error
JsonParse(text) ==
    LET r == ParseValue(text) IN
    IF r.ok /\ r.rest = <<>> THEN r ELSE ParseFail

\* from_json(const json& j, PasswordEntry& p): at() throws on a value that is
\* no object or lacks the key, get_to on a value of the wrong type
FromJsonThrows(j) ==
    \/ j.t # "object"
    \/ ~(EntryKeys \subseteq DOMAIN j.o)
    \/ j.o["id"].t # "number"
    \/ \E k \in TextKeys : j.o[k].t # "string"

from_json(j) ==
    [id |-> j.o["id"].n, title |-> j.o["title"].s,
     username |-> j.o["username"].s, password |-> j.o["password"].s,
     url |-> j.o["url"].s, notes |-> j.o["notes"].s]

RECURSIVE GetItems(_, _)
GetItems(a, acc) ==
    IF a = <<>> THEN [ok |-> TRUE, entries |-> acc]
    ELSE IF FromJsonThrows(Head(a)) THEN [ok |-> FALSE, entries |-> acc]
    ELSE GetItems(Tail(a), Append(acc, from_json(Head(a))))

\* j.get<std::vector<PasswordEntry>>(): the vector, or a json::exception;
\* entries holds what was converted before the exception
GetEntries(j) ==
    IF j.t # "array" THEN [ok |-> FALSE, entries |-> <<>>]
    ELSE GetItems(j.a, <<>>)

----------------------------------------------------------------------------
(* libsodium behind Crypto.cpp.  The key derivation is a deterministic,    *)
(* collision-free function of (password, salt); a sealed box opens under   *)
(* the key and nonce it was sealed with, whole, and under nothing else.    *)

crypto_pwhash(password, salt) == <<password, salt>>

\* a key that no password derives
NoKey == <<"", 0>>

crypto_secretbox_easy(data, nonce, key) == [key |-> key, nonce |-> nonce, pt |-> data]

\* bytes = a prefix, len bytes long, of salt || nonce || box
Bytes(salt, nonce, box, len) == [salt |-> salt, nonce |-> nonce, box |-> box, len |-> len]

BoxLen(box) == Len(box.pt) + TAG_LEN

FullLen(b) == SALT_LEN + NONCE_LEN + BoxLen(b.box)

NoBytes == Bytes(0, 0, crypto_secretbox_easy(<<>>, 0, NoKey), 0)

\* crypto_secretbox_open_easy(m, c, clen, nonce, key) == 0
crypto_secretbox_open_easy(box, clen, nonce, key) ==
    /\ clen = BoxLen(box)
    /\ box.key = key
    /\ box.nonce = nonce

\* an encrypt that never fills its salt and nonce arrays: both stay as they
\* were, whatever the random source would have handed out
encryptUnfilled(data, password, salt, nonce, kdfOk) ==
    IF ~kdfOk
    THEN [threw |-> TRUE, blob |-> NoBytes]
    ELSE LET key == crypto_pwhash(password, 0)
             ciphertext == crypto_secretbox_easy(data, 0, key)
         IN  [threw |-> FALSE,
              blob |-> Bytes(0, 0, ciphertext,
                             SALT_LEN + NONCE_LEN + (Len(data) + TAG_LEN))]

\* Crypto::encrypt, given what randombytes_buf draws and whether
\* crypto_pwhash finds its memory
encrypt(data, password, salt, nonce, kdfOk) ==
    IF ~kdfOk
    THEN [threw |-> TRUE, blob |-> NoBytes]
    ELSE LET key == crypto_pwhash(password, salt)
             ciphertext == crypto_secretbox_easy(data, nonce, key)
         IN  [threw |-> FALSE,
              blob |-> Bytes(salt, nonce, ciphertext,
                             SALT_LEN + NONCE_LEN + (Len(data) + TAG_LEN))]

DecryptResult(res, text, kdf, why) == [res |-> res, text |-> text, kdf |-> kdf, why |-> why]

\* a length guard that also turns away the envelope of the empty plaintext
TooShortOrEmpty(size) == size <= SALT_LEN + NONCE_LEN + TAG_LEN

\* the length guard of Crypto::decrypt
TooShort(size) == size < SALT_LEN + NONCE_LEN

\* Crypto::decrypt: nullopt, the plaintext, or the exception of the
\* std::vector constructor; kdf tells whether crypto_pwhash was called
decrypt(encrypted_data, password, kdfOk) ==
    IF TooShort(encrypted_data.len)
    THEN DecryptResult("nullopt", <<>>, FALSE, "malformed")
    ELSE LET ciphertext_len == SizeSub(SizeSub(encrypted_data.len, SALT_LEN), NONCE_LEN)
             key == crypto_pwhash(password, encrypted_data.salt)
             decrypted_size == SizeSub(ciphertext_len, TAG_LEN)
         IN  IF ~kdfOk THEN DecryptResult("nullopt", <<>>, TRUE, "kdf")
             ELSE IF decrypted_size > VECTOR_MAX
             THEN DecryptResult("throw", <<>>, TRUE, "length_error")
             ELSE IF ~crypto_secretbox_open_easy(encrypted_data.box, ciphertext_len,
                                                encrypted_data.nonce, key)
             THEN DecryptResult("nullopt", <<>>, TRUE, "auth")
             ELSE DecryptResult("value", encrypted_data.box.pt, TRUE, "ok")

----------------------------------------------------------------------------
(* Vault *)

NoFile == [exists |-> FALSE, data |-> NoBytes]
FileOf(bytes) == [exists |-> TRUE, data |-> bytes]

LoadResult(ret, entries, why, kdf, dec) ==
    [ret |-> ret, entries |-> entries, why |-> why, kdf |-> kdf, dec |-> dec]

\* a load that converts into m_entries directly (j.get_to(m_entries)): what
\* was converted before the exception stays
AssignParsedInPlace(current, got) == got.entries

\* m_entries = j.get<std::vector<PasswordEntry>>(); inside the try block: the
\* assignment happens only when get returned
AssignParsed(current, got) == IF got.ok THEN got.entries ELSE current

\* Vault::load on file f with the collection at current
VaultLoad(f, password, kdfOk, current) ==
    IF ~f.exists THEN LoadResult("false", current, "not_found", FALSE, "none")
    ELSE IF f.data.len = 0 THEN LoadResult("false", current, "empty", FALSE, "none")
    ELSE LET d == decrypt(f.data, password, kdfOk) IN
         IF d.res = "throw" THEN LoadResult("throw", current, d.why, d.kdf, d.res)
         ELSE IF d.res = "nullopt" THEN LoadResult("false", current, d.why, d.kdf, d.res)
         ELSE LET j == JsonParse(d.text) IN
              IF ~j.ok THEN LoadResult("false", current, "parse", d.kdf, d.res)
              ELSE LET got == GetEntries(j.v) IN
                   LoadResult(IF got.ok THEN "true" ELSE "false",
                              AssignParsed(current, got),
                              IF got.ok THEN "ok" ELSE "shape", d.kdf, d.res)

\* std::find_if inside std::remove_if: the first index whose id matches, or
\* Len + 1
RECURSIVE FindIf(_, _, _)
FindIf(v, i, id) ==
    IF i > Len(v) THEN i
    ELSE IF v[i].id = id THEN i
    ELSE FindIf(v, i + 1, id)

\* the loop of std::remove_if: for (i = first; ++i != last;)
\*     if (!pred(*i)) *first++ = std::move(*i);
RECURSIVE RemoveLoop(_, _, _, _)
RemoveLoop(v, first, i, id) ==
    IF i > Len(v) THEN [v |-> v, end |-> first]
    ELSE IF v[i].id # id
    THEN RemoveLoop([v EXCEPT ![first] = v[i]], first + 1, i + 1, id)
    ELSE RemoveLoop(v, first, i + 1, id)

remove_if(v, id) ==
    LET first == FindIf(v, 1, id) IN
    IF first > Len(v) THEN [v |-> v, end |-> first]
    ELSE RemoveLoop(v, first, first + 1, id)

\* the one-iterator erase, m_entries.erase(first): one element goes
eraseOne(v, first) ==
    IF first > Len(v) THEN v
    ELSE SubSeq(v, 1, first - 1) \o SubSeq(v, first + 1, Len(v))

\* m_entries.erase(first, m_entries.end())
erase(v, first) == SubSeq(v, 1, first - 1)

\* Vault::deleteEntry
VaultDelete(entries, id) ==
    LET r == remove_if(entries, id) IN erase(r.v, r.end)

\* Vault::getEntryForEdit: the index of the entry the pointer points to, 0
\* for nullptr
getEntryForEdit(entries, id) ==
    LET k == FindIf(entries, 1, id) IN IF k > Len(entries) THEN 0 ELSE k

----------------------------------------------------------------------------
(* The files the program may find at its start *)

E1 == Entry(1, 1)
E2 == Entry(2, 2)

WithoutKey(j, key) == JObj([k \in DOMAIN j.o \ {key} |-> j.o[k]])

InitialTexts ==
    { Dump(VectorToJson(<<E1, E2>>)),                                 \* a vault
      Dump(JArr(<<JObj(to_json(E1).o @@ ("version" :> JNum(1)))>>)),  \* an extra key
      <<>>,                                                           \* no text
      <<Punct("["), NumTok(1)>>,                                      \* no JSON
      Dump(to_json(E1)),                                              \* no array
      Dump(JArr(<<to_json(E1), WithoutKey(to_json(E2), "notes")>>)),  \* a key missing
      Dump(JArr(<<JObj([to_json(E1).o EXCEPT !["id"] = JStr("x")])>>)) }  \* id no number

InitialLengths ==
    {0, 1, SALT_LEN + NONCE_LEN, SALT_LEN + NONCE_LEN + TAG_LEN - 1,
     SALT_LEN + NONCE_LEN + TAG_LEN, SALT_LEN + NONCE_LEN + TAG_LEN + 9}

InitialFiles ==
    {NoFile}
    \cup {FileOf(Bytes(1, 1, crypto_secretbox_easy(<<>>, 1, NoKey), n)) : n \in InitialLengths}
    \cup {FileOf(encrypt(text, "p1", 1, 1, TRUE).blob) : text \in InitialTexts}

----------------------------------------------------------------------------
(* The calls *)

Call(op, ret, why, pw, id, kdf, dec) ==
    [op |-> op, ret |-> ret, why |-> why, pw |-> pw, id |-> id, kdf |-> kdf, dec |-> dec]

NoSave == [valid |-> FALSE, entries |-> <<>>, pw |-> ""]

\* an exception that leaves load ends the process: main.cpp catches nothing
Running == last.ret # "throw"

\* char passwordBuffer[128]
BUF_LEN == 128

\* char passwordBuffer[128] = { 0 }, and the buffer after the loop of Lock
\* Vault: for (int i = 0; i < 128; ++i) passwordBuffer[i] = 0;
ZeroBuffer == [i \in 1..BUF_LEN |-> 0]

\* PasswordEntry(): the identifier zero and five empty strings
PasswordEntry ==
    [id |-> 0, title |-> "", username |-> "", password |-> "", url |-> "", notes |-> ""]

NoDecrypt == [of |-> 0, res |-> "none", text |-> <<>>]

\* no call of Crypto::encrypt or Crypto::decrypt yet
CryptoStart ==
    /\ randombytes = 0
    /\ envelopes = <<>>
    /\ decrypted = NoDecrypt

\* main's variables before the main loop, and RenderMainVault's statics
AppStart ==
    /\ currentState = "Locked"
    /\ passwordBuffer = ZeroBuffer
    /\ loginError = ""
    /\ currentEntry = PasswordEntry
    /\ popupOpen = FALSE
    /\ selectedEntry = -1

Init ==
    /\ m_entries = <<>>
    /\ file \in InitialFiles
    /\ last = Call("none", "void", "", "", 0, FALSE, "none")
    /\ saved = NoSave
    /\ CryptoStart
    /\ AppStart

Load(password, kdfOk) ==
    /\ Running
    /\ LET r == VaultLoad(file, password, kdfOk, m_entries) IN
       /\ m_entries' = r.entries
       /\ last' = Call("load", r.ret, r.why, password, 0, r.kdf, r.dec)
    /\ UNCHANGED <<file, saved>>

\* How many bytes of the size bytes reach the file: -1 when the file cannot
\* be opened, size when the write is complete, fewer when the device fails
WriteOutcomes(size) == {-1, 0, SALT_LEN + NONCE_LEN, size}

\* Vault::save
Save(password, kdfOk, salt, nonce) ==
    /\ Running
    /\ LET json_string == Dump(VectorToJson(m_entries))
           e == encrypt(json_string, password, salt, nonce, kdfOk)
       IN  IF e.threw
           THEN /\ last' = Call("save", "false", "kdf", password, 0, TRUE, "none")
                /\ UNCHANGED <<file, saved>>
           ELSE \E written \in WriteOutcomes(e.blob.len) :
                IF written = -1
                THEN /\ last' = Call("save", "false", "open", password, 0, TRUE, "none")
                     /\ UNCHANGED <<file, saved>>
                ELSE /\ file' = FileOf([e.blob EXCEPT !.len = written])
                     /\ last' = Call("save", "true", "ok", password, 0, TRUE, "none")
                     /\ saved' = [valid |-> TRUE, entries |-> m_entries, pw |-> password]
    /\ UNCHANGED m_entries

\* Vault::clear
Clear ==
    /\ Running
    /\ m_entries' = <<>>
    /\ last' = Call("clear", "void", "", "", 0, FALSE, "none")
    /\ UNCHANGED <<file, saved>>

\* Vault::addEntry
AddEntry(entry, cap) ==
    /\ Running
    /\ Len(m_entries) < cap
    /\ m_entries' = Append(m_entries, entry)
    /\ last' = Call("add", "void", "", "", entry.id, FALSE, "none")
    /\ UNCHANGED <<file, saved>>

\* Vault::deleteEntry
DeleteEntry(id) ==
    /\ Running
    /\ m_entries' = VaultDelete(m_entries, id)
    /\ last' = Call("delete", "void", IF HasId(m_entries, id) THEN "found" ELSE "absent",
                    "", id, FALSE, "none")
    /\ UNCHANGED <<file, saved>>

\* PasswordEntry* existing = vault.getEntryForEdit(currentEntry.id);
\* if (existing) *existing = currentEntry;
EditEntry(entry) ==
    /\ Running
    /\ LET existing == getEntryForEdit(m_entries, entry.id) IN
       /\ existing # 0
       /\ m_entries' = [m_entries EXCEPT ![existing] = entry]
    /\ last' = Call("edit", "void", "", "", entry.id, FALSE, "none")
    /\ UNCHANGED <<file, saved>>

\* The actions above are the Vault's part of a step; a client that calls the
\* Vault directly leaves the rest as it is.
Next ==
    \/ \E password \in Passwords, kdfOk \in BOOLEAN :
          Load(password, kdfOk) /\ UNCHANGED <<cryptoVars, appVars>>
    \/ \E password \in Passwords, kdfOk \in BOOLEAN, salt \in Salts, nonce \in Nonces :
          Save(password, kdfOk, salt, nonce) /\ UNCHANGED <<cryptoVars, appVars>>
    \/ Clear /\ UNCHANGED <<cryptoVars, appVars>>
    \/ \E entry \in Entries :
          AddEntry(entry, MaxStored) /\ UNCHANGED <<cryptoVars, appVars>>
    \/ \E id \in Ids : DeleteEntry(id) /\ UNCHANGED <<cryptoVars, appVars>>
    \/ \E entry \in Entries : EditEntry(entry) /\ UNCHANGED <<cryptoVars, appVars>>

Spec == Init /\ [][Next]_vars

(* The entry store alone: a vault that starts empty, with no file, and is  *)
(* only added to, deleted from, edited and cleared.                        *)

StoreInit ==
    /\ m_entries = <<>>
    /\ file = NoFile
    /\ last = Call("none", "void", "", "", 0, FALSE, "none")
    /\ saved = NoSave
    /\ CryptoStart
    /\ AppStart

StoreNext ==
    \/ Clear /\ UNCHANGED <<cryptoVars, appVars>>
    \/ \E entry \in StoreEntries :
          AddEntry(entry, MaxEntries) /\ UNCHANGED <<cryptoVars, appVars>>
    \/ \E id \in StoreIds : DeleteEntry(id) /\ UNCHANGED <<cryptoVars, appVars>>
    \/ \E entry \in StoreEntries : EditEntry(entry) /\ UNCHANGED <<cryptoVars, appVars>>

StoreSpec == StoreInit /\ [][StoreNext]_vars

(* Crypto::encrypt and Crypto::decrypt called directly.  The random source  *)
(* is a good one: it hands out each value once.                             *)

\* randombytes_buf: the value handed out after count earlier ones
randombytes_buf(count) == count + 1

Hello == <<StrTok("h"), StrTok("e"), StrTok("l"), StrTok("l"), StrTok("o")>>

\* the plaintexts: none, and five bytes
Plaintexts == {<<>>, Hello}

CryptoInit ==
    /\ m_entries = <<>>
    /\ file = NoFile
    /\ last = Call("none", "void", "", "", 0, FALSE, "none")
    /\ saved = NoSave
    /\ CryptoStart
    /\ AppStart

\* one call of Crypto::encrypt: the salt is drawn first; the nonce is drawn
\* after the key derivation, so not at all when that fails
EncryptCall(data, password, kdfOk) ==
    /\ Len(envelopes) < MaxEncrypts
    /\ randombytes < 2 * MaxEncrypts
    /\ LET salt == randombytes_buf(randombytes)
           nonce == randombytes_buf(randombytes + 1)
           e == encrypt(data, password, salt, nonce, kdfOk)
       IN  IF e.threw
           THEN /\ randombytes' = randombytes + 1
                /\ last' = Call("encrypt", "throw", "kdf", password, 0, TRUE, "none")
                /\ UNCHANGED envelopes
           ELSE /\ randombytes' = randombytes + 2
                /\ envelopes' = Append(envelopes,
                                       [data |-> data, pw |-> password, blob |-> e.blob])
                /\ last' = Call("encrypt", "value", "ok", password,
                                Len(envelopes) + 1, TRUE, "none")
    /\ UNCHANGED <<m_entries, file, saved, decrypted, appVars>>

\* one call of Crypto::decrypt, on the k-th envelope
DecryptCall(k, password, kdfOk) ==
    /\ LET d == decrypt(envelopes[k].blob, password, kdfOk)
       IN  /\ decrypted' = [of |-> k, res |-> d.res, text |-> d.text]
           /\ last' = Call("decrypt", d.res, d.why, password, k, d.kdf, d.res)
    /\ UNCHANGED <<m_entries, file, saved, randombytes, envelopes, appVars>>

\* Vault::save, whose call of Crypto::encrypt draws from the same source
SaveCall(password, kdfOk) ==
    /\ Len(envelopes) < MaxEncrypts
    /\ randombytes < 2 * MaxEncrypts
    /\ LET salt == randombytes_buf(randombytes)
           nonce == randombytes_buf(randombytes + 1)
           json_string == Dump(VectorToJson(m_entries))
       IN  /\ Save(password, kdfOk, salt, nonce)
           /\ IF last'.why = "kdf"
              THEN /\ randombytes' = randombytes + 1
                   /\ UNCHANGED envelopes
              ELSE /\ randombytes' = randombytes + 2
                   /\ envelopes' =
                         Append(envelopes,
                                [data |-> json_string, pw |-> password,
                                 blob |-> encrypt(json_string, password, salt, nonce,
                                                  kdfOk).blob])
    /\ UNCHANGED <<decrypted, appVars>>

CryptoNext ==
    \/ \E data \in Plaintexts, password \in Passwords, kdfOk \in BOOLEAN :
          EncryptCall(data, password, kdfOk)
    \/ \E password \in Passwords, kdfOk \in BOOLEAN : SaveCall(password, kdfOk)
    \/ \E k \in 1..Len(envelopes), password \in Passwords, kdfOk \in BOOLEAN :
          DecryptCall(k, password, kdfOk)

CryptoSpec == CryptoInit /\ [][CryptoNext]_vars

----------------------------------------------------------------------------
(* The application of main.cpp.  One action is one click (or one edit of a  *)
(* text field) in the window that is shown: the login screen while Locked,  *)
(* the main window while Unlocked, and of the main window only the popup    *)
(* while the modal "Add/Edit Entry" popup is open.                          *)

\* the characters of the master passwords, as the codes a char holds
Typed == [p1 |-> <<112, 49>>, p2 |-> <<112, 50>>]

\* ImGui::InputText(label, buf, size): the text and its terminator are written
\* into the buffer; the bytes behind them stay
InputText(buf, text) ==
    [i \in 1..BUF_LEN |->
        IF i <= Len(text) THEN text[i]
        ELSE IF i = Len(text) + 1 THEN 0
        ELSE buf[i]]

\* the length of the C string in the buffer
RECURSIVE strlen(_, _)
strlen(buf, n) ==
    IF n >= BUF_LEN \/ buf[n + 1] = 0 THEN n ELSE strlen(buf, n + 1)

\* std::string(const char*): the password that a call is handed when it is
\* given passwordBuffer
std_string(buf) ==
    LET chars == SubSeq(buf, 1, strlen(buf, 0)) IN
    IF \E p \in DOMAIN Typed : Typed[p] = chars
    THEN CHOOSE p \in DOMAIN Typed : Typed[p] = chars
    ELSE ""

\* what GetCurrentTimeMillis() may return: system_clock may stand still or
\* be set back
Clock == Ids

\* the salts randombytes_buf hands to the saves of the application
AppSalts == {1}

\* the clock and the text fields of the popup where the whole application
\* is modelled (AppSpec)
AppClock == {1}
AppProfiles == {1}

VaultFile(entries) == FileOf(encrypt(Dump(VectorToJson(entries)), "p1", 1, 1, TRUE).blob)

\* The vault files the application may find: none, or a vault of two entries
AppFiles == {NoFile, VaultFile(<<E1, E2>>)}

\* The vault files the editor may find: none, a vault of two entries, a
\* vault in which two entries share an identifier
EditorFiles == {NoFile, VaultFile(<<E1, E2>>), VaultFile(<<E1, Entry(1, 2)>>)}

AppInit ==
    /\ m_entries = <<>>
    /\ file \in AppFiles
    /\ last = Call("none", "void", "", "", 0, FALSE, "none")
    /\ saved = NoSave
    /\ CryptoStart
    /\ AppStart

MainWindow == Running /\ currentState = "Unlocked" /\ ~popupOpen

\* the entry the right pane shows: selectedEntry != -1 && selectedEntry <
\* vault.getEntries().size()
EntryShown == selectedEntry # -1 /\ selectedEntry < Len(m_entries)

\* the user edits the password field of the login screen
TypePassword(text) ==
    /\ Running
    /\ currentState = "Locked"
    /\ passwordBuffer' = InputText(passwordBuffer, text)
    /\ UNCHANGED <<m_entries, file, last, saved, cryptoVars, currentState, loginError,
                   currentEntry, popupOpen, selectedEntry>>

\* the ifstream that is opened on the vault file: the file, or a stream
\* that is not good when the file is missing or cannot be opened
Opened(f, canOpen) == IF canOpen THEN f ELSE NoFile

\* the Unlock button.  canOpen: whether load's ifstream can open a file that
\* exists; canProbe: the same for the ifstream of line 86
Unlock(kdfOk, canOpen, canProbe) ==
    /\ Running
    /\ currentState = "Locked"
    /\ LET password == std_string(passwordBuffer)
           r == VaultLoad(Opened(file, canOpen), password, kdfOk, m_entries)
       IN  /\ m_entries' = r.entries
           /\ last' = Call("load", r.ret, r.why, password, 0, r.kdf, r.dec)
           /\ IF r.ret = "throw"
              THEN UNCHANGED <<currentState, loginError>>
              ELSE IF r.ret = "true"
              THEN /\ currentState' = "Unlocked"
                   /\ loginError' = ""
              ELSE IF ~Opened(file, canProbe).exists
              THEN /\ currentState' = "Unlocked"
                   /\ loginError' = "New vault created. Click 'Save' to protect it."
              ELSE /\ loginError' = "Wrong password or corrupt vault file."
                   /\ UNCHANGED currentState
    /\ UNCHANGED <<file, saved, cryptoVars, passwordBuffer, currentEntry, popupOpen,
                   selectedEntry>>

\* a Lock Vault button that leaves the collection in memory
LockVaultNoClear ==
    /\ MainWindow
    /\ passwordBuffer' = ZeroBuffer
    /\ currentState' = "Locked"
    /\ loginError' = ""
    /\ last' = Call("lock", "void", "", "", 0, FALSE, "none")
    /\ UNCHANGED <<m_entries, file, saved, cryptoVars, currentEntry, popupOpen,
                   selectedEntry>>

\* the Lock Vault button
LockVault ==
    /\ MainWindow
    /\ Clear
    /\ passwordBuffer' = ZeroBuffer
    /\ currentState' = "Locked"
    /\ loginError' = ""
    /\ UNCHANGED <<cryptoVars, currentEntry, popupOpen, selectedEntry>>

\* the Save Vault button
SaveVault(kdfOk, salt, nonce) ==
    /\ MainWindow
    /\ Save(std_string(passwordBuffer), kdfOk, salt, nonce)
    /\ loginError' = IF last'.ret = "true" THEN "Vault saved successfully."
                     ELSE "Failed to save vault!"
    /\ UNCHANGED <<cryptoVars, currentState, passwordBuffer, currentEntry, popupOpen,
                   selectedEntry>>

\* the Add New Entry button
AddNewEntry(now) ==
    /\ MainWindow
    /\ currentEntry' = [PasswordEntry EXCEPT !.id = now]
    /\ popupOpen' = TRUE
    /\ UNCHANGED <<m_entries, file, last, saved, cryptoVars, currentState,
                   passwordBuffer, loginError, selectedEntry>>

\* a click on the n-th line of the entry list (no filter set)
SelectEntry(n) ==
    /\ MainWindow
    /\ n < Len(m_entries)
    /\ selectedEntry' = n
    /\ UNCHANGED <<m_entries, file, last, saved, cryptoVars, currentState,
                   passwordBuffer, loginError, currentEntry, popupOpen>>

\* the Edit button of the right pane
EditClick ==
    /\ MainWindow
    /\ EntryShown
    /\ currentEntry' = m_entries[selectedEntry + 1]
    /\ popupOpen' = TRUE
    /\ UNCHANGED <<m_entries, file, last, saved, cryptoVars, currentState,
                   passwordBuffer, loginError, selectedEntry>>

\* the Delete button of the right pane
DeleteClick ==
    /\ MainWindow
    /\ EntryShown
    /\ DeleteEntry(m_entries[selectedEntry + 1].id)
    /\ selectedEntry' = -1
    /\ UNCHANGED <<cryptoVars, currentState, passwordBuffer, loginError, currentEntry,
                   popupOpen>>

\* a popup Save that adds the entry without looking for its identifier
PopupSaveAdds(profile) ==
    /\ Running
    /\ popupOpen
    /\ LET entry == Entry(currentEntry.id, profile) IN
       /\ currentEntry' = entry
       /\ AddEntry(entry, Len(m_entries) + 1)
    /\ popupOpen' = FALSE
    /\ UNCHANGED <<cryptoVars, currentState, passwordBuffer, loginError, selectedEntry>>

\* the Save button of the popup, with what the user left in its five text
\* fields
PopupSave(profile) ==
    /\ Running
    /\ popupOpen
    /\ LET entry == Entry(currentEntry.id, profile) IN
       /\ currentEntry' = entry
       /\ IF getEntryForEdit(m_entries, entry.id) # 0
          THEN EditEntry(entry)
          ELSE AddEntry(entry, Len(m_entries) + 1)
    /\ popupOpen' = FALSE
    /\ UNCHANGED <<cryptoVars, currentState, passwordBuffer, loginError, selectedEntry>>

\* the Cancel button of the popup
PopupCancel ==
    /\ Running
    /\ popupOpen
    /\ popupOpen' = FALSE
    /\ UNCHANGED <<m_entries, file, last, saved, cryptoVars, currentState,
                   passwordBuffer, loginError, currentEntry, selectedEntry>>

AppNext ==
    \/ \E p \in DOMAIN Typed : TypePassword(Typed[p])
    \/ \E kdfOk, canOpen, canProbe \in BOOLEAN : Unlock(kdfOk, canOpen, canProbe)
    \/ LockVault
    \/ \E kdfOk \in BOOLEAN, salt \in AppSalts, nonce \in Nonces :
          SaveVault(kdfOk, salt, nonce)
    \/ \E now \in AppClock : AddNewEntry(now)
    \/ \E n \in 0..(Len(m_entries) - 1) : SelectEntry(n)
    \/ EditClick
    \/ DeleteClick
    \/ \E profile \in AppProfiles : PopupSave(profile)
    \/ PopupCancel

AppSpec == AppInit /\ [][AppNext]_vars

(* The editor: the application with its vault file as it found it, never   *)
(* saved to and never locked, with more to put into the popup.             *)

EditorInit ==
    /\ m_entries = <<>>
    /\ file \in EditorFiles
    /\ last = Call("none", "void", "", "", 0, FALSE, "none")
    /\ saved = NoSave
    /\ CryptoStart
    /\ AppStart

EditorNext ==
    \/ \E p \in DOMAIN Typed : TypePassword(Typed[p])
    \/ \E kdfOk, canOpen, canProbe \in BOOLEAN : Unlock(kdfOk, canOpen, canProbe)
    \/ \E now \in Clock : AddNewEntry(now)
    \/ \E n \in 0..(Len(m_entries) - 1) : SelectEntry(n)
    \/ EditClick
    \/ DeleteClick
    \/ \E profile \in Profiles : PopupSave(profile)
    \/ PopupCancel

EditorSpec == EditorInit /\ [][EditorNext]_vars

----------------------------------------------------------------------------
(* The claims *)

UniqueIds(entries) ==
    \A i, j \in 1..Len(entries) : i # j => entries[i].id # entries[j].id

\* C1: after any sequence of addEntry and deleteEntry calls on a vault that
\* started empty, no two records of m_entries share an identifier.
C1_UniqueIds == UniqueIds(m_entries)

MinEnvelope == SALT_LEN + NONCE_LEN + TAG_LEN

\* C2: decrypt answers every input shorter than SALT_LEN + NONCE_LEN + TAG_LEN
\* with the failure result, and without calling crypto_pwhash.
C2_LengthGuard ==
    (last.op = "load" /\ last.dec # "none" /\ file.data.len < MinEnvelope)
        => (last.dec = "nullopt" /\ ~last.kdf)

\* C3: load and save return true or false to their caller whatever the file
\* holds; no exception leaves them.
C3_NoThrow == last.op \in {"load", "save"} => last.ret \in {"true", "false"}

\* what a load that succeeds decodes from file f
Decoded(f) == GetEntries(JsonParse(f.data.box.pt).v).entries

\* C4: a load either returns true and m_entries is the decoded sequence, or
\* does not and m_entries is what it was before the call.
C4_LoadAtomic ==
    [][last'.op = "load" =>
          IF last'.ret = "true"
          THEN m_entries' = Decoded(file)
          ELSE m_entries' = m_entries]_vars

\* C4's case: a load failed on the shape of the second record, after the
\* first was converted, with a collection in memory
C4_Witness ==
    /\ last.op = "load"
    /\ last.why = "shape"
    /\ Decoded(file) # <<>>
    /\ m_entries # <<>>

\* f holds the envelope of a collection under a password: any salt and nonce
IsEnvelopeOf(f, entries, password) ==
    /\ f.exists
    /\ f.data.len = FullLen(f.data)
    /\ f.data.box = crypto_secretbox_easy(Dump(VectorToJson(entries)), f.data.nonce,
                                          crypto_pwhash(password, f.data.salt))

\* C5: after a save that returned true, clear followed by load with the
\* same password (key derivation finding its memory) returns true and
\* m_entries is the collection that was saved.
C5_RoundTrip ==
    [][(/\ last.op = "clear"
        /\ last'.op = "load"
        /\ saved.valid
        /\ last'.pw = saved.pw
        /\ last'.why # "kdf")
          => (last'.ret = "true" /\ m_entries' = saved.entries)]_vars

\* the round trip of C5 where the save wrote the whole envelope
RoundTripWhenWritten ==
    [][(/\ last.op = "clear"
        /\ last'.op = "load"
        /\ saved.valid
        /\ IsEnvelopeOf(file, saved.entries, saved.pw)
        /\ last'.pw = saved.pw
        /\ last'.why # "kdf")
          => (last'.ret = "true" /\ m_entries' = saved.entries)]_vars

\* C6: what load returns for a file that exists and cannot be decrypted
\* differs from what it returns when no file exists.
C6_NotFoundDistinct ==
    (last.op = "load" /\ last.why \in {"malformed", "auth"})
        => last.ret # VaultLoad(NoFile, last.pw, TRUE, m_entries).ret

\* C7: a load with a password other than that of the last save returns false
\* and hands out no plaintext.
C7_WrongPassword ==
    (last.op = "load" /\ saved.valid /\ last.pw # saved.pw)
        => (last.ret = "false" /\ last.dec # "value")

\* the rejection of C7 where the save wrote the whole envelope
WrongPasswordWhenWritten ==
    (/\ last.op = "load"
     /\ saved.valid
     /\ IsEnvelopeOf(file, saved.entries, saved.pw)
     /\ last.pw # saved.pw)
        => (last.ret = "false" /\ last.dec = "nullopt")

\* C8: only save writes the file, so the file holds the envelope of the
\* collection as it was at the last save that returned true.
C8_FileIsLastSave ==
    saved.valid => IsEnvelopeOf(file, saved.entries, saved.pw)

\* the part of C8 about the other calls: they leave the file as it is
C8_OnlySaveWrites == [][last'.op # "save" => file' = file]_vars

\* C9: deleteEntry(id) leaves the records with another identifier, in their
\* order, and no record with id; with no such record nothing changes.
C9_Delete ==
    [][last'.op = "delete" =>
          /\ m_entries' = SelectSeq(m_entries, LAMBDA e : e.id # last'.id)
          /\ ~HasId(m_entries', last'.id)
          /\ (~HasId(m_entries, last'.id) => m_entries' = m_entries)
          /\ last'.ret = "void"]_vars

\* C9's case: a record was deleted and two records with other identifiers,
\* the larger one first, are left
C9_Witness ==
    /\ last.op = "delete"
    /\ last.why = "found"
    /\ Len(m_entries) = 2
    /\ m_entries[1].id > m_entries[2].id

\* C10: what load returns when key derivation fails differs from what it
\* returns, for the same file, when the password is wrong.
C10_KdfFailureDistinct ==
    (last.op = "load" /\ last.why = "kdf")
        => \A password \in Passwords :
              LET r == VaultLoad(file, password, TRUE, m_entries) IN
              r.why = "auth" => r.ret # last.ret

\* C11: a save that could not open the file, or could not write the whole
\* envelope, returns a failure, and that failure differs from what save
\* returns when key derivation fails; a save that returns true has written
\* the envelope of the collection.
C11_SaveReportsIO ==
    [][last'.op = "save" =>
          /\ last'.ret = "true" => IsEnvelopeOf(file', m_entries', last'.pw)
          /\ (last.op = "save" /\ last.why = "kdf" /\ last'.why = "open")
                => last'.ret # last.ret]_vars

\* the part of C11 about the file that cannot be opened: it is reported
SaveReportsOpenFailure ==
    (last.op = "save" /\ last.why = "open") => last.ret = "false"

\* C12: every call of encrypt draws a new salt and a new nonce: no value
\* drawn for one envelope is in another or serves twice in one, no two
\* envelopes were sealed under the same (key, nonce) pair, and no two
\* envelopes, also of one plaintext under one password, are the same bytes.
C12_FreshSaltAndNonce ==
    \A i, j \in 1..Len(envelopes) :
        LET a == envelopes[i].blob
            b == envelopes[j].blob
        IN  /\ a.salt # a.nonce
            /\ i # j =>
                 /\ {a.salt, a.nonce} \cap {b.salt, b.nonce} = {}
                 /\ <<a.box.key, a.box.nonce>> # <<b.box.key, b.box.nonce>>
                 /\ a # b

\* C12's case: one plaintext encrypted twice under one password, with a call
\* whose key derivation failed in between
C12_Witness ==
    /\ Len(envelopes) = 2
    /\ envelopes[1].data = envelopes[2].data
    /\ envelopes[1].pw = envelopes[2].pw
    /\ envelopes[2].blob.salt > envelopes[1].blob.nonce + 1

\* C13: the envelope of a plaintext X has SALT_LEN + NONCE_LEN + len(X) +
\* TAG_LEN bytes: the salt, the nonce, and X sealed under that nonce and the
\* key of that salt; the envelope of the empty plaintext has SALT_LEN +
\* NONCE_LEN + TAG_LEN bytes, and decrypt of it with the same password
\* returns the empty plaintext.
C13_EnvelopeLength ==
    /\ \A k \in 1..Len(envelopes) :
          LET e == envelopes[k] IN
          /\ e.blob.len = SALT_LEN + NONCE_LEN + Len(e.data) + TAG_LEN
          /\ e.blob.box = crypto_secretbox_easy(e.data, e.blob.nonce,
                                                crypto_pwhash(e.pw, e.blob.salt))
          /\ e.data = <<>> => e.blob.len = SALT_LEN + NONCE_LEN + TAG_LEN
    /\ (/\ last.op = "decrypt"
        /\ envelopes[decrypted.of].data = <<>>
        /\ last.pw = envelopes[decrypted.of].pw
        /\ last.why # "kdf")
          => (decrypted.res = "value" /\ decrypted.text = <<>>)

\* C13's case: the envelope of the empty plaintext was decrypted with its
\* password
C13_Witness ==
    /\ last.op = "decrypt"
    /\ last.why = "ok"
    /\ envelopes[decrypted.of].data = <<>>
    /\ envelopes[decrypted.of].blob.len = MinEnvelope

\* a step of the Lock Vault button: the one caller of Vault::clear
LockStep == last'.op = "clear" /\ last.op # "clear"

\* C14: Lock Vault, taken while Unlocked, empties m_entries, zeroes all 128
\* bytes of passwordBuffer and makes the state Locked; and whenever the state
\* is Locked, also after Unlock attempts that failed, m_entries is empty.
C14_LockClears ==
    /\ [](currentState = "Locked" => m_entries = <<>>)
    /\ [][LockStep =>
            /\ currentState = "Unlocked"
            /\ currentState' = "Locked"
            /\ m_entries' = <<>>
            /\ \A i \in 1..BUF_LEN : passwordBuffer'[i] = 0]_vars

\* C14's case: a collection was saved, the vault was locked, and an Unlock
\* with another password has failed since
C14_Witness ==
    /\ currentState = "Locked"
    /\ saved.valid
    /\ saved.entries # <<>>
    /\ last.op = "load"
    /\ last.ret = "false"
    /\ last.pw # saved.pw
    /\ loginError = "Wrong password or corrupt vault file."

\* a step of the Unlock button
UnlockStep ==
    currentState = "Locked" /\ passwordBuffer' = passwordBuffer /\ last'.op = "load"

\* C15: an Unlock click makes the state Unlocked only if load returned true,
\* or no vault file exists, and then with an empty collection; when the file
\* exists and load did not return true the state stays Locked and loginError
\* reads 'Wrong password or corrupt vault file.'
C15_UnlockOnlyIfLoaded ==
    [][UnlockStep =>
          /\ currentState' = "Unlocked"
                => (last'.ret = "true" \/ (~file.exists /\ m_entries' = <<>>))
          /\ (file.exists /\ last'.ret # "true")
                => /\ currentState' = "Locked"
                   /\ loginError' = "Wrong password or corrupt vault file."]_vars

\* the part of C15 that needs no look at the file: a load that returned true
\* unlocks, and a new vault is entered with an empty collection
UnlockAfterLoad ==
    [][UnlockStep =>
          /\ last'.ret = "true" => currentState' = "Unlocked"
          /\ (currentState' = "Unlocked" /\ last'.ret # "true") => m_entries' = <<>>
          /\ (~file.exists /\ last'.ret # "throw") => currentState' = "Unlocked"]_vars

\* a step of the popup's Save button that changes more than the popup
PopupSaveStep ==
    /\ popupOpen
    /\ ~popupOpen'
    /\ <<m_entries', last', currentEntry'>> # <<m_entries, last, currentEntry>>

\* C16: the popup's Save overwrites the record that has the edited
\* identifier, in place, leaving length and order as they are, or, when there
\* is none, appends the record at the end; and no click in the main window or
\* the popup takes a collection with unique identifiers to one without.
C16_PopupSaveUpserts ==
    [][/\ PopupSaveStep =>
            /\ currentEntry'.id = currentEntry.id
            /\ IF HasId(m_entries, currentEntry.id)
               THEN /\ Len(m_entries') = Len(m_entries)
                    /\ \E k \in 1..Len(m_entries) :
                          /\ m_entries[k].id = currentEntry.id
                          /\ m_entries'[k] = currentEntry'
                          /\ \A j \in 1..Len(m_entries) :
                                j # k => m_entries'[j] = m_entries[j]
               ELSE m_entries' = Append(m_entries, currentEntry')
       /\ (currentState = "Unlocked" /\ UniqueIds(m_entries))
            => UniqueIds(m_entries')]_vars

\* C16's case: in a new vault two records were added through the popup and
\* the second was then overwritten through it
C16_Witness ==
    /\ ~file.exists
    /\ ~popupOpen
    /\ last.op = "edit"
    /\ Len(m_entries) = 2
    /\ UniqueIds(m_entries)
    /\ m_entries[2] = currentEntry
    /\ selectedEntry = 1

=============================================================================
